---- MODULE Spec2Model ----
(***************************************************************************)
(* Model of whitebox_tools' fill_missing_data tool                         *)
(* (src/whitebox_tools/src/bin/fill_missing_data.rs, fn run).              *)
(*                                                                         *)
(* run() coerces the filter size to an odd number, builds a fixed-radius   *)
(* search index over the boundary cells of the input raster (first pass),  *)
(* and then writes every cell of the output raster (second pass): valid    *)
(* cells are copied, nodata cells get an inverse-square-distance weighted  *)
(* sum of the boundary samples found within the radius.                    *)
(*                                                                         *)
(* Floating point.  The tool computes in f64.  The model computes in a     *)
(* binary floating-point format with MantBits significand bits, round to   *)
(* nearest, ties to even, and an unbounded exponent: the same arithmetic   *)
(* as f64 (53 bits) at a width that TLC's integers can hold.  Values are   *)
(* records [s, m, e] standing for s * m * 2^e, normalised so that          *)
(* 2^(MantBits-1) <= m < 2^MantBits, or m = 0 for zero.                    *)
(***************************************************************************)
EXTENDS Integers, Naturals, Sequences, FiniteSets, TLC

(***************************************************************************)
(* Bounds of the model.                                                    *)
(***************************************************************************)
MaxRows == 3
MaxCols == 3
MaxCells == 9
MaxHoles == 3
MaxFilter == 2
MantBits == 11

(***************************************************************************)
(* Floating-point arithmetic.                                              *)
(***************************************************************************)
Pow2(n) == 2 ^ n

\* The number of bits of n >= 0: the least b in lo .. hi with n < 2^b.
RECURSIVE BitLenIn(_, _, _)
BitLenIn(n, lo, hi) ==
    IF lo >= hi THEN lo
    ELSE LET mid == (lo + hi) \div 2
         IN IF n < 2 ^ mid THEN BitLenIn(n, lo, mid) ELSE BitLenIn(n, mid + 1, hi)

BitLen(n) == BitLenIn(n, 0, 31)

Abs(i) == IF i < 0 THEN -i ELSE i

Sign(i) == IF i < 0 THEN -1 ELSE 1

Zero == [s |-> 1, m |-> 0, e |-> 0]

\* The two results of a division by zero: 0.0 / 0.0 and x / 0.0 for x # 0.
\* No operation of the tool has either of them as an operand (NoSpecials).
NaN == [s |-> 0, m |-> 0, e |-> 0]
Inf(sgn) == [s |-> sgn, m |-> 0, e |-> 1]

\* The float nearest to s * n * 2^e, ties to even, for n > 0 of b bits.
F64RoundBits(s, n, e, b) ==
    IF b <= MantBits
    THEN [s |-> s, m |-> n * Pow2(MantBits - b), e |-> e - (MantBits - b)]
    ELSE LET k == b - MantBits
             q == n \div Pow2(k)
             r == n % Pow2(k)
             h == Pow2(k - 1)
             q1 == IF r > h \/ (r = h /\ q % 2 = 1) THEN q + 1 ELSE q
         IN IF q1 = Pow2(MantBits)
            THEN [s |-> s, m |-> Pow2(MantBits - 1), e |-> e + k + 1]
            ELSE [s |-> s, m |-> q1, e |-> e + k]

\* The float nearest to s * n * 2^e (n >= 0), ties to even.
F64Round(s, n, e) == IF n = 0 THEN Zero ELSE F64RoundBits(s, n, e, BitLen(n))

\* `i as f64`
F64FromInt(i) == F64Round(Sign(i), Abs(i), 0)

One == F64FromInt(1)

\* a * b: the product of two MantBits-bit significands has 2 * MantBits - 1
\* or 2 * MantBits bits.
F64Mul(a, b) ==
    IF a.m = 0 \/ b.m = 0 THEN Zero
    ELSE LET n == a.m * b.m
         IN F64RoundBits(a.s * b.s, n, a.e + b.e,
                         IF n < Pow2(2 * MantBits - 1) THEN 2 * MantBits - 1 ELSE 2 * MantBits)

\* a / b: MantBits + 2 or MantBits + 3 quotient bits and a sticky bit, then rounded.
F64Div(a, b) ==
    IF b.m = 0 THEN (IF a.m = 0 THEN NaN ELSE Inf(a.s))
    ELSE IF a.m = 0 THEN Zero
    ELSE LET num == a.m * Pow2(MantBits + 2)
             q == num \div b.m
             st == IF num % b.m = 0 THEN 0 ELSE 1
             n == 2 * q + st
         IN F64RoundBits(a.s * b.s, n, a.e - b.e - (MantBits + 2) - 1,
                         IF n < Pow2(MantBits + 3) THEN MantBits + 3 ELSE MantBits + 4)

F64Add(a, b) ==
    IF a.m = 0 THEN b
    ELSE IF b.m = 0 THEN a
    ELSE LET hi == IF a.e >= b.e THEN a ELSE b
             lo == IF a.e >= b.e THEN b ELSE a
             d == hi.e - lo.e
         IN IF d > MantBits + 2 THEN hi
            ELSE LET n == hi.s * hi.m * Pow2(d) + lo.s * lo.m
                 IN F64Round(Sign(n), Abs(n), lo.e)

\* floor(sqrt(n)), bit by bit from bit position `bit` down.
RECURSIVE ISqrtFrom(_, _, _)
ISqrtFrom(n, r, bit) ==
    IF bit < 0 THEN r
    ELSE LET t == r + Pow2(bit)
         IN ISqrtFrom(n, IF t * t <= n THEN t ELSE r, bit - 1)

ISqrt(n) == ISqrtFrom(n, 0, MantBits + 1)

\* sqrt(a) for a >= 0, correctly rounded.
F64Sqrt(a) ==
    IF a.m = 0 THEN Zero
    ELSE LET odd == a.e % 2 # 0
             m0 == IF odd THEN 2 * a.m ELSE a.m
             e0 == IF odd THEN a.e - 1 ELSE a.e
             k == (2 * MantBits + 4 - BitLen(m0)) \div 2
             n == m0 * Pow2(2 * k)
             r == ISqrt(n)
             st == IF r * r = n THEN 0 ELSE 1
         IN F64Round(1, 2 * r + st, (e0 \div 2) - k - 1)

\* a > 0.0
F64Pos(a) == a.m # 0 /\ a.s = 1

\* |a| <= |b| for a, b # 0: by exponent, then by significand.
MagLe(a, b) == a.e < b.e \/ (a.e = b.e /\ a.m <= b.m)

\* a <= b
F64Le(a, b) ==
    IF a.m = 0 THEN b.m = 0 \/ b.s = 1
    ELSE IF b.m = 0 THEN a.s = -1
    ELSE IF a.s # b.s THEN a.s = -1
    ELSE IF a.s = 1 THEN MagLe(a, b) ELSE MagLe(b, a)

\* a.floor() for a >= 0
F64Floor(a) ==
    IF a.e >= 0 THEN a ELSE F64Round(a.s, a.m \div Pow2(-a.e), 0)

\* The integer value of a float that holds an integer.
F64ToInt(a) ==
    IF a.e >= 0 THEN a.s * a.m * Pow2(a.e) ELSE a.s * (a.m \div Pow2(-a.e))

(***************************************************************************)
(* Input rasters.  A raster is [rows, columns, nodata, data]; data maps    *)
(* <<row, col>> (0-based) to the cell's f64 value.                         *)
(***************************************************************************)
Schemes == {"flat", "signed"}

NodataOf(scheme) == IF scheme = "signed" THEN 0 ELSE -32768

ValueOf(scheme, r, c) ==
    IF scheme = "flat" THEN 10
    ELSE IF (r + c) % 2 = 0 THEN 1 + 2 * r + c ELSE -(1 + 2 * r + c)

CellsOf(nr, nc) == (0 .. nr - 1) \X (0 .. nc - 1)

Dims == { d \in (1 .. MaxRows) \X (1 .. MaxCols) : d[1] * d[2] <= MaxCells }

Rasters ==
    UNION { { [rows |-> d[1], columns |-> d[2],
               nodata |-> F64FromInt(NodataOf(sch)),
               data |-> [rc \in CellsOf(d[1], d[2]) |->
                            IF rc \in holes
                            THEN F64FromInt(NodataOf(sch))
                            ELSE F64FromInt(ValueOf(sch, rc[1], rc[2]))]]
              : holes \in { h \in SUBSET CellsOf(d[1], d[2]) : Cardinality(h) <= MaxHoles } }
            : d \in Dims, sch \in Schemes }

\* The filter sizes run() is called with: the small ones, and the first odd
\* one that `filter_size as f64` does not hold exactly (2^53 + 1 for f64).
FilterSizes == (0 .. MaxFilter) \cup {2 ^ MantBits + 1}

(***************************************************************************)
(* State.                                                                  *)
(***************************************************************************)
VARIABLES
    pc,           \* position in run(): "coerce", "new", "extract", "interp", "done"
    filter_size,  \* run's mutable parameter filter_size
    filter_arg,   \* history: the filter size run() was called with
    input,        \* the input raster
    output,       \* the output raster's data
    frs,          \* the FixedRadiusSearch index: [r, pts]
    order,        \* the order in which the index returns its samples
    row, col,     \* loop variables of the current pass
    wlog,         \* history: the <<row, col>> of every write to output, in order
    searches      \* history: one record per frs.search call, in order

vars == <<pc, filter_size, filter_arg, input, output, frs, order, row, col, wlog, searches>>

rows == input.rows
columns == input.columns
nodata == input.nodata
Cells == CellsOf(rows, columns)

\* input[(row, col)]: a read outside the raster yields nodata.
Get(r, c) ==
    IF r >= 0 /\ r < rows /\ c >= 0 /\ c < columns THEN input.data[<<r, c>>] ELSE nodata

d_x == <<1, 1, 1, 0, -1, -1, -1, 0>>
d_y == <<-1, 0, 1, 1, 1, 0, -1, -1>>

(***************************************************************************)
(* The filter size is made odd.                                            *)
(***************************************************************************)
\* (filter_size as f64 / 2f64).floor() == (filter_size as f64 / 2f64)
IsEven(fs) ==
    LET half == F64Div(F64FromInt(fs), F64FromInt(2)) IN F64Floor(half) = half

\* filter_size -= 1 on a usize: 0 wraps to the largest value (shown as 2^20 - 1).
CoerceOddDecrement(fs) == IF IsEven(fs) THEN (IF fs = 0 THEN 2 ^ 20 - 1 ELSE fs - 1) ELSE fs

\* if ... { filter_size += 1; }
CoerceOdd(fs) == IF IsEven(fs) THEN fs + 1 ELSE fs

SearchRadiusHalf(fs) == F64FromInt(fs \div 2)

\* filter_size as f64
SearchRadius(fs) == F64FromInt(fs)

(***************************************************************************)
(* FixedRadiusSearch.                                                      *)
(***************************************************************************)
FixedRadiusSearchNew(r) == [r |-> r, pts |-> <<>>]

Insert(f, x, y, value) == [f EXCEPT !.pts = Append(@, <<x, y, value>>)]

\* The function f restricted to S, with its values computed once.
RECURSIVE Tabulate(_, _)
Tabulate(f, S) ==
    IF S = {} THEN <<>>
    ELSE LET x == CHOOSE x \in S : TRUE IN (x :> f[x]) @@ Tabulate(f, S \ {x})

\* The Euclidean distance between two grid points dc columns and dr rows apart:
\* sqrt(dc * dc + dr * dr) in floating point.
DistOver(o) ==
    LET dx == F64FromInt(o[1])
        dy == F64FromInt(o[2])
    IN F64Sqrt(F64Add(F64Mul(dx, dx), F64Mul(dy, dy)))

DistAt == Tabulate([o \in (0 .. MaxCols) \X (0 .. MaxRows) |-> DistOver(o)],
                   (0 .. MaxCols) \X (0 .. MaxRows))

\* Euclidean distance from sample p to (x, y); the coordinates are cell indices.
Dist(p, x, y) == DistAt[<<Abs(F64ToInt(x) - F64ToInt(p[1])), Abs(F64ToInt(y) - F64ToInt(p[2]))>>]

\* The samples within the radius of (x, y), each with its distance, from the j-th on.
RECURSIVE SelectHits(_, _, _, _)
SelectHits(f, x, y, j) ==
    IF j > Len(f.pts) THEN <<>>
    ELSE LET dist == Dist(f.pts[j], x, y)
         IN IF F64Le(dist, f.r)
            THEN <<[p |-> f.pts[j], dist |-> dist]>> \o SelectHits(f, x, y, j + 1)
            ELSE SelectHits(f, x, y, j + 1)

Reverse(q) == [j \in 1 .. Len(q) |-> q[Len(q) + 1 - j]]

\* The samples within the radius of (x, y), in the order the index returns them.
SearchHits(f, x, y) ==
    IF order = "rev" THEN Reverse(SelectHits(f, x, y, 1)) ELSE SelectHits(f, x, y, 1)

\* frs.search(x, y) returns the (value, distance) pairs of these samples.
ResultOf(hits) == [j \in 1 .. Len(hits) |-> <<hits[j].p[3], hits[j].dist>>]

(***************************************************************************)
(* First pass: the edge cells go into the index.                           *)
(***************************************************************************)
IsValidAlways(r, c) == TRUE

\* if input[(row, col)] != nodata
IsValid(r, c) == Get(r, c) # nodata

RECURSIVE ScanNeighboursNoBreak(_, _, _, _)
ScanNeighboursNoBreak(f, r, c, i) ==
    IF i > 8 THEN f
    ELSE IF Get(r + d_y[i], c + d_x[i]) = nodata
         THEN ScanNeighboursNoBreak(Insert(f, F64FromInt(c), F64FromInt(r), Get(r, c)),
                                    r, c, i + 1)
         ELSE ScanNeighboursNoBreak(f, r, c, i + 1)

\* for i in 0..8 { if input[(row_n, col_n)] == nodata { insert; break; } }
RECURSIVE ScanNeighbours(_, _, _, _)
ScanNeighbours(f, r, c, i) ==
    IF i > 8 THEN f
    ELSE IF Get(r + d_y[i], c + d_x[i]) = nodata
         THEN Insert(f, F64FromInt(c), F64FromInt(r), Get(r, c))
         ELSE ScanNeighbours(f, r, c, i + 1)

ExtractAt(f, r, c) == IF IsValid(r, c) THEN ScanNeighbours(f, r, c, 1) ELSE f

NextCellSkipRow(r, c) == <<r + 1, 0>>

\* for row in 0..rows { for col in 0..columns { ... } }
NextCell(r, c) == IF c + 1 < columns THEN <<r, c + 1>> ELSE <<r + 1, 0>>

ExtractDoneEarly(r) == r >= rows - 1

ExtractDone(r) == r >= rows

InterpDone(r) == r >= rows

(***************************************************************************)
(* Second pass: the value of a hole.                                       *)
(***************************************************************************)
IsHoleInverted(r, c) == Get(r, c) # nodata

\* if input[(row, col)] == nodata
IsHole(r, c) == Get(r, c) = nodata

WeightLinear(dist) == F64Div(One, dist)

\* 1.0 / (dist * dist), tabulated over the distances > 0 between grid points.
WeightOf ==
    Tabulate([d \in { DistAt[o] : o \in DOMAIN DistAt } \ {Zero} |-> F64Div(One, F64Mul(d, d))],
             { DistAt[o] : o \in DOMAIN DistAt } \ {Zero})

Weight(dist) == WeightOf[dist]

\* for j in 0..ret.len() { if dist > 0.0 { sum_weights += 1.0 / (dist * dist) } }
RECURSIVE SumWeights(_, _, _)
SumWeights(ret, j, sw) ==
    IF j > Len(ret) THEN sw
    ELSE SumWeights(ret, j + 1,
                    IF F64Pos(ret[j][2]) THEN F64Add(sw, Weight(ret[j][2])) ELSE sw)

\* The sum of value * weight, divided by sum_weights after the loop.
RECURSIVE SumValuesDivideLast(_, _, _, _)
SumValuesDivideLast(ret, j, sum_weights, z) ==
    IF j > Len(ret) THEN F64Div(z, sum_weights)
    ELSE SumValuesDivideLast(ret, j + 1, sum_weights,
                             IF F64Pos(ret[j][2])
                             THEN F64Add(z, F64Mul(ret[j][1], Weight(ret[j][2])))
                             ELSE z)

\* z = 0.0; for j in 0..ret.len() { if dist > 0.0 { z += value * weight / sum_weights } }
RECURSIVE SumValues(_, _, _, _)
SumValues(ret, j, sum_weights, z) ==
    IF j > Len(ret) THEN z
    ELSE SumValues(ret, j + 1, sum_weights,
                   IF F64Pos(ret[j][2])
                   THEN F64Add(z, F64Div(F64Mul(ret[j][1], Weight(ret[j][2])), sum_weights))
                   ELSE z)

SetValue(out, r, c, z) == [out EXCEPT ![<<r, c>>] = z]

(***************************************************************************)
(* The steps of run().                                                     *)
(***************************************************************************)
Init ==
    /\ pc = "coerce"
    /\ filter_size \in FilterSizes
    /\ filter_arg = filter_size
    /\ input \in Rasters
    /\ output = [rc \in DOMAIN input.data |-> input.nodata]
    /\ frs = FixedRadiusSearchNew(Zero)
    /\ order \in {"fwd", "rev"}
    /\ row = 0
    /\ col = 0
    /\ wlog = <<>>
    /\ searches = <<>>

CoerceFilter ==
    /\ pc = "coerce"
    /\ filter_size' = CoerceOdd(filter_size)
    /\ pc' = "new"
    /\ UNCHANGED <<filter_arg, input, output, frs, order, row, col, wlog, searches>>

NewIndex ==
    /\ pc = "new"
    /\ frs' = FixedRadiusSearchNew(SearchRadius(filter_size))
    /\ pc' = "extract"
    /\ row' = 0
    /\ col' = 0
    /\ UNCHANGED <<filter_size, filter_arg, input, output, order, wlog, searches>>

ExtractCell ==
    /\ pc = "extract"
    /\ ~ExtractDone(row)
    /\ frs' = ExtractAt(frs, row, col)
    /\ row' = NextCell(row, col)[1]
    /\ col' = NextCell(row, col)[2]
    /\ UNCHANGED <<pc, filter_size, filter_arg, input, output, order, wlog, searches>>

StartInterp ==
    /\ pc = "extract"
    /\ ExtractDone(row)
    /\ pc' = "interp"
    /\ row' = 0
    /\ col' = 0
    /\ UNCHANGED <<filter_size, filter_arg, input, output, frs, order, wlog, searches>>

FillHole ==
    /\ pc = "interp"
    /\ ~InterpDone(row)
    /\ IsHole(row, col)
    /\ LET x == F64FromInt(col)
           y == F64FromInt(row)
           hits == SearchHits(frs, x, y)
           ret == ResultOf(hits)
           sum_weights == SumWeights(ret, 1, Zero)
           z == SumValues(ret, 1, sum_weights, Zero)
       IN /\ output' = SetValue(output, row, col, z)
          /\ searches' = Append(searches,
                 [row |-> row, col |-> col, hits |-> hits,
                  npts |-> Len(frs.pts), sum_weights |-> sum_weights, z |-> z])
    /\ wlog' = Append(wlog, <<row, col>>)
    /\ row' = NextCell(row, col)[1]
    /\ col' = NextCell(row, col)[2]
    /\ UNCHANGED <<pc, filter_size, filter_arg, input, frs, order>>

CopyCell ==
    /\ pc = "interp"
    /\ ~InterpDone(row)
    /\ ~IsHole(row, col)
    /\ output' = SetValue(output, row, col, Get(row, col))
    /\ wlog' = Append(wlog, <<row, col>>)
    /\ row' = NextCell(row, col)[1]
    /\ col' = NextCell(row, col)[2]
    /\ UNCHANGED <<pc, filter_size, filter_arg, input, frs, order, searches>>

Finish ==
    /\ pc = "interp"
    /\ InterpDone(row)
    /\ pc' = "done"
    /\ UNCHANGED <<filter_size, filter_arg, input, output, frs, order, row, col, wlog, searches>>

Next ==
    \/ CoerceFilter
    \/ NewIndex
    \/ ExtractCell
    \/ StartInterp
    \/ FillHole
    \/ CopyCell
    \/ Finish

Spec == Init /\ [][Next]_vars

TypeOK == pc \in {"coerce", "new", "extract", "interp", "done"}

(***************************************************************************)
(* Vocabulary of the properties: the raster seen as sets of cells.         *)
(***************************************************************************)
Range(q) == { q[j] : j \in 1 .. Len(q) }

Holes == { rc \in Cells : input.data[rc] = nodata }

Valid == Cells \ Holes

Nbrs8(rc) == { <<rc[1] + dr, rc[2] + dc>> : dr \in -1 .. 1, dc \in -1 .. 1 } \ {rc}

Nbrs4(rc) == { n \in Nbrs8(rc) : n[1] = rc[1] \/ n[2] = rc[2] }

ReadsNodata(rc) == rc \notin Cells \/ input.data[rc] = nodata

BoundaryCells == { rc \in Valid : \E n \in Nbrs8(rc) : ReadsNodata(n) }

SampleOf(rc) == <<F64FromInt(rc[2]), F64FromInt(rc[1]), input.data[rc]>>

\* The k-th search is the latest, and its cell is the cell written last: the
\* state is the one its FillHole step produced, or the end of a run whose last
\* cell it filled.
JustFilled(k) ==
    /\ k = Len(searches)
    /\ wlog # <<>>
    /\ wlog[Len(wlog)] = <<searches[k].row, searches[k].col>>

\* No division by zero has produced a value.
NoSpecials ==
    /\ \A rc \in Cells : output[rc].s # 0 /\ ~(output[rc].m = 0 /\ output[rc].e # 0)
    /\ \A k \in 1 .. Len(searches) : searches[k].sum_weights.s # 0

(***************************************************************************)
(* C1: after a complete run every cell whose input value is not nodata     *)
(* holds its input value in the output; when the input has no nodata cell  *)
(* the output equals the input cell for cell.                              *)
(***************************************************************************)
C1_CopyThrough ==
    pc = "done" =>
        /\ \A rc \in Cells : input.data[rc] # nodata => output[rc] = input.data[rc]
        /\ Holes = {} => output = input.data

C1_Witness == pc = "done" /\ Holes = {} /\ Cardinality(Cells) >= 4

(***************************************************************************)
(* C2: when the first pass has ended (before the first write of the second *)
(* pass) the index holds exactly one sample (col, row, value) for each     *)
(* valid cell with at least one of its 8 neighbours reading nodata (a      *)
(* neighbour outside the raster reads nodata), and nothing else: no        *)
(* duplicate, no hole cell.                                                *)
(***************************************************************************)
C2_BoundarySamples ==
    pc = "interp" /\ wlog = <<>> =>
        /\ Range(frs.pts) = { SampleOf(rc) : rc \in BoundaryCells }
        /\ Len(frs.pts) = Cardinality(BoundaryCells)

C2_Witness ==
    /\ pc = "interp"
    /\ wlog = <<>>
    /\ Valid \ BoundaryCells # {}
    /\ Len(frs.pts) = 8

(***************************************************************************)
(* C5: the radius the index is built with is the filter size made odd:     *)
(* 2k+1 for the filter sizes 2k and 2k+1, an odd positive integer, set     *)
(* once for the run.                                                       *)
(***************************************************************************)
C5_OddRadius ==
    /\ pc # "coerce" => filter_size = 2 * (filter_arg \div 2) + 1
    /\ pc \in {"extract", "interp", "done"} =>
           /\ frs.r.e >= 0
           /\ F64ToInt(frs.r) = 2 * (filter_arg \div 2) + 1

(***************************************************************************)
(* C6: every insert into the index precedes the first search: no search    *)
(* happens during the first pass, the index has not grown since any        *)
(* search, and every search is made on an index that holds a sample for    *)
(* every boundary cell.                                                    *)
(***************************************************************************)
C6_InsertsBeforeSearches ==
    /\ pc \in {"coerce", "new", "extract"} => searches = <<>>
    /\ \A k \in 1 .. Len(searches) :
           /\ searches[k].npts = Len(frs.pts)
           /\ JustFilled(k) =>
                  { SampleOf(rc) : rc \in BoundaryCells } \subseteq Range(frs.pts)

C6_Witness == Len(searches) >= 2 /\ Len(frs.pts) >= 2 /\ rows >= 2

(***************************************************************************)
(* C7: no search made by the second pass is at the coordinate of a stored  *)
(* sample: samples sit on valid cells, queries on nodata cells, so no      *)
(* search result holds a sample at distance 0.                             *)
(***************************************************************************)
C7_NoSelfReference ==
    /\ \A j \in 1 .. Len(frs.pts) :
           <<F64ToInt(frs.pts[j][2]), F64ToInt(frs.pts[j][1])>> \in Valid
    /\ \A k \in 1 .. Len(searches) :
           /\ <<searches[k].row, searches[k].col>> \in Holes
           /\ \A j \in 1 .. Len(searches[k].hits) : F64Pos(searches[k].hits[j].dist)

C7_Witness == \E k \in 1 .. Len(searches) : Len(searches[k].hits) >= 2

(***************************************************************************)
(* C9: every cell of the output is written exactly once over a complete    *)
(* run, all writes happen in the second pass, and every write goes to a    *)
(* cell of the raster.                                                     *)
(***************************************************************************)
C9_WrittenOnce ==
    /\ pc \in {"coerce", "new", "extract"} => wlog = <<>>
    /\ \A i \in 1 .. Len(wlog) : wlog[i] \in Cells
    /\ Cardinality(Range(wlog)) = Len(wlog)
    /\ pc = "done" => Range(wlog) = Cells

C9_Witness == pc = "done" /\ Len(wlog) >= 6 /\ Holes # {} /\ Valid # {}

(***************************************************************************)
(* The samples a search used, in exact integer arithmetic.                 *)
(***************************************************************************)
\* The positions in the result of search s whose distance is > 0.
Used(s) == { j \in 1 .. Len(s.hits) : F64Pos(s.hits[j].dist) }

\* The squared distance from the query of s to its j-th sample.
DSq(s, j) ==
    LET dc == s.col - F64ToInt(s.hits[j].p[1])
        dr == s.row - F64ToInt(s.hits[j].p[2])
    IN dc * dc + dr * dr

Val(s, j) == F64ToInt(s.hits[j].p[3])

RECURSIVE Gcd(_, _)
Gcd(a, b) == IF b = 0 THEN a ELSE Gcd(b, a % b)

RECURSIVE LcmDSq(_, _)
LcmDSq(s, J) ==
    IF J = {} THEN 1
    ELSE LET j == CHOOSE x \in J : TRUE
             l == LcmDSq(s, J \ {j})
         IN (l * DSq(s, j)) \div Gcd(l, DSq(s, j))

RECURSIVE SumOver(_, _)
SumOver(f, J) ==
    IF J = {} THEN 0
    ELSE LET j == CHOOSE x \in J : TRUE IN f[j] + SumOver(f, J \ {j})

\* The inverse-square-distance weighted mean of the used samples is Num / Den.
Den(s) == LET l == LcmDSq(s, Used(s)) IN SumOver([j \in Used(s) |-> l \div DSq(s, j)], Used(s))

Num(s) ==
    LET l == LcmDSq(s, Used(s))
    IN SumOver([j \in Used(s) |-> Val(s, j) * (l \div DSq(s, j))], Used(s))

MinVal(s) == CHOOSE v \in { Val(s, j) : j \in Used(s) } : \A j \in Used(s) : v <= Val(s, j)

MaxVal(s) == CHOOSE v \in { Val(s, j) : j \in Used(s) } : \A j \in Used(s) : v >= Val(s, j)

MaxAbs(s) == IF Abs(MinVal(s)) > MaxVal(s) THEN Abs(MinVal(s)) ELSE Abs(MaxVal(s))

\* floor and ceiling of z * d * 2^MantBits for a float z and an integer d > 0.
ScaledFloor(z, d) ==
    IF -z.e <= MantBits THEN z.s * z.m * d * 2 ^ (MantBits + z.e)
    ELSE (z.s * z.m * d) \div 2 ^ (-z.e - MantBits)

ScaledCeil(z, d) ==
    IF -z.e <= MantBits THEN z.s * z.m * d * 2 ^ (MantBits + z.e)
    ELSE -((-(z.s * z.m * d)) \div 2 ^ (-z.e - MantBits))

\* The rounding allowance for n samples, in the units of ScaledFloor:
\* (2n + 10) * 2^-MantBits relative to the largest sample magnitude.
Allowance(s) == (2 * Cardinality(Used(s)) + 10) * MaxAbs(s) * Den(s)

(***************************************************************************)
(* C3 (as stated): for every hole whose search result has a sample at      *)
(* distance > 0, the value written is the inverse-square-distance weighted *)
(* mean of those samples (read up to rounding) and lies between their      *)
(* minimum and maximum, inclusive.  Each search is examined in the state   *)
(* its value is written in.                                                *)
(***************************************************************************)
C3_ExactMeanInRange ==
    \A k \in 1 .. Len(searches) :
        LET s == searches[k]
            den == Den(s)
            mean == Num(s) * 2 ^ MantBits
            allowance == Allowance(s)
        IN JustFilled(k) /\ Used(s) # {} =>
            /\ ScaledCeil(s.z, den) <= mean + allowance
            /\ ScaledFloor(s.z, den) >= mean - allowance
            /\ F64Le(F64FromInt(MinVal(s)), s.z)
            /\ F64Le(s.z, F64FromInt(MaxVal(s)))

(***************************************************************************)
(* C3 (amended): for every hole whose search result has a sample at        *)
(* distance > 0, the value written is the floating-point evaluation of     *)
(* the weighted sum; it differs from the exact inverse-square-distance     *)
(* weighted mean of those samples by at most (2n + 10) * 2^-MantBits times *)
(* the largest sample magnitude (n samples), and so lies between their     *)
(* minimum and maximum widened by that much.  The arithmetic of each       *)
(* search is examined in the state its value is written in; the value      *)
(* stays in the output from then on.                                       *)
(***************************************************************************)
C3_MeanUpToRounding ==
    \A k \in 1 .. Len(searches) :
        LET s == searches[k]
            den == Den(s)
            mean == Num(s) * 2 ^ MantBits
            allowance == Allowance(s)
        IN Used(s) # {} =>
            /\ output[<<s.row, s.col>>] = s.z
            /\ JustFilled(k) =>
                   /\ ScaledCeil(s.z, den) <= mean + allowance
                   /\ ScaledFloor(s.z, den) >= mean - allowance
                   /\ ScaledCeil(s.z, den) <= MaxVal(s) * den * 2 ^ MantBits + allowance
                   /\ ScaledFloor(s.z, den) >= MinVal(s) * den * 2 ^ MantBits - allowance

C3_Witness ==
    \E k \in 1 .. Len(searches) :
        /\ Cardinality(Used(searches[k])) >= 3
        /\ MinVal(searches[k]) < MaxVal(searches[k])
        /\ \E i, j \in Used(searches[k]) : DSq(searches[k], i) # DSq(searches[k], j)

(***************************************************************************)
(* C4 (as stated): for a hole whose search result has no sample at         *)
(* distance > 0, sum_weights is 0 and the value written is the result of   *)
(* 0/0, a non-numeric value; the cell is not set to nodata.                *)
(***************************************************************************)
C4_WritesNaN ==
    \A k \in 1 .. Len(searches) :
        LET s == searches[k] IN
        Used(s) = {} =>
            /\ s.sum_weights = Zero
            /\ output[<<s.row, s.col>>] = NaN
            /\ output[<<s.row, s.col>>] # nodata

(***************************************************************************)
(* C4 (amended): for a hole whose search result has no sample at distance  *)
(* > 0, sum_weights is 0 and the value written is 0.0, the initial value   *)
(* of z: no division is evaluated.  The cell is not set to nodata unless   *)
(* nodata is itself 0.0.                                                   *)
(***************************************************************************)
C4_WritesZero ==
    \A k \in 1 .. Len(searches) :
        LET s == searches[k] IN
        Used(s) = {} =>
            /\ s.sum_weights = Zero
            /\ output[<<s.row, s.col>>] = Zero
            /\ nodata # Zero => output[<<s.row, s.col>>] # nodata

C4_Witness ==
    \E k \in 1 .. Len(searches) :
        /\ Len(searches[k].hits) = 0
        /\ frs.pts # <<>>
        /\ nodata # Zero

(***************************************************************************)
(* C8: for a fixed raster and filter sizes f1 <= f2, the samples a hole's  *)
(* estimate uses under f1 are among those it uses under f2.                *)
(***************************************************************************)
UsedSamples(s) == { s.hits[j].p : j \in Used(s) }

\* The samples the query of s uses when the run is made with filter size f.
UsedUnder(f, s) ==
    LET hits == SearchHits([r |-> SearchRadius(CoerceOdd(f)), pts |-> frs.pts],
                           F64FromInt(s.col), F64FromInt(s.row))
    IN { hits[j].p : j \in { i \in 1 .. Len(hits) : F64Pos(hits[i].dist) } }

====
